---- MODULE Spec2Model ----
(***************************************************************************)
(* Model of cli/src/cmd/time_lock.rs: `proposal list`.                     *)
(*                                                                         *)
(* load_proposals connects, resolves the block range, reads the clock,     *)
(* fetches the contract's events with load_events (recursive bisection on  *)
(* query failure), sorts them by block number, folds them into a map       *)
(* id -> ProposalItem, filters the map by status and prints it.            *)
(*                                                                         *)
(* The recursion of load_events is modelled by the list `todo` of the      *)
(* calls still to make, leftmost first: the code runs the left half to     *)
(* completion before the right half and appends the right result to the    *)
(* left one, so the results are accumulated in `events` in call order.     *)
(* Ranges are taken with from_block <= to_block, and block numbers far     *)
(* below 2^63, so that from_block + to_block does not overflow U64.        *)
(*                                                                         *)
(* A panic ends the invocation like a returned Err does; `outcome` names   *)
(* which one: "UnboundedRangeFailure" is panic!("range is already          *)
(* narrow"), "ConsistencyViolation" is panic!("proposal not exist").       *)
(***************************************************************************)
EXTENDS Integers, Sequences, FiniteSets, TLC

VARIABLES
    chain,        \* the contract's log, in chain order (external)
    head,         \* the chain's head block number (external)
    timestamps,   \* the contract's getTimestamp answers given so far (external)
    from_block,   \* argument of load_proposals
    to_block,     \* argument of load_proposals: <<b>> for Some(b), <<>> for None
    flags,        \* arguments no_done, no_ready, no_pending, no_cancel
    pc,           \* position in load_proposals
    outcome,      \* how the invocation ended, "Running" until then
    upto,         \* local _to_block
    now,          \* local now
    proposals,    \* local proposals: HashMap id -> ProposalItem
    events,       \* local events: the vector returned by load_events, then sorted
    cursor,       \* position of the for loop in events
    todo,         \* load_events calls still to make: <<[from, to, depth]>>
    queries,      \* history of the log queries issued: <<[from, to, ok, cause, in_order]>>
    emitted       \* the proposal records printed

vars == <<chain, head, timestamps, from_block, to_block, flags, pc, outcome,
          upto, now, proposals, events, cursor, todo, queries, emitted>>

----------------------------------------------------------------------------
(* Bounds *)

MaxBlock == 4        \* blocks 0..MaxBlock in the fetch-centred inputs
MaxFoldBlock == 1    \* blocks 0..MaxFoldBlock in the fold-centred inputs
MaxEvents == 3       \* longest log in the fold-centred inputs
MaxFetchEvents == 2  \* longest log in the fetch-centred inputs
NumIds == 2          \* proposal ids 1..NumIds
MaxIndex == 0        \* CallScheduled.index in 0..MaxIndex
MaxNow == 1          \* wall clock in 1..MaxNow, timestamps in 0..MaxNow+1

Ids == 1..NumIds
Times == 0..(MaxNow + 1)

----------------------------------------------------------------------------
(* Types *)

ProposalStatus == {"Pending", "Ready", "Executed", "Cancelled"}

AdminKinds == {"MinDelayChange", "RoleAdminChanged", "RoleGranted", "RoleRevoked"}

TimeLockEvents == {"CallScheduled", "CallExecuted", "Cancelled"} \cup AdminKinds

\* The decoded event (TimeLockEvents) without its LogMeta.  The fields of
\* CallScheduled other than id and index (target, value, data, predecessor,
\* delay) are carried as one opaque field `call`.
Scheduled(id, index) == [kind |-> "CallScheduled", id |-> id, index |-> index, call |-> id]
Executed(id) == [kind |-> "CallExecuted", id |-> id, index |-> 0, call |-> 0]
Cancelled(id) == [kind |-> "Cancelled", id |-> id, index |-> 0, call |-> 0]
Admin(kind) == [kind |-> kind, id |-> 0, index |-> 0, call |-> 0]

\* Fold-centred inputs: the proposal events of every id, one administrative event.
FoldPayloads ==
    {Scheduled(id, x) : id \in Ids, x \in 0..MaxIndex}
        \cup {Executed(id) : id \in Ids}
        \cup {Cancelled(id) : id \in Ids}
        \cup {Admin("RoleGranted")}

FoldLogs(n) == [1..n -> FoldPayloads]

\* Fetch-centred inputs: a proposal is scheduled, then it is executed or
\* cancelled or an administrative event of any kind follows, and so on.
FetchPayloadsAt(i) ==
    IF i % 2 = 1
       THEN {Scheduled(1, 0)}
       ELSE {Executed(1), Cancelled(1)} \cup {Admin(k) : k \in AdminKinds}

FetchLogs(n) ==
    {ps \in [1..n -> UNION {FetchPayloadsAt(i) : i \in 1..2}] :
        \A i \in 1..n : ps[i] \in FetchPayloadsAt(i)}

\* (TimeLockEvents, LogMeta): the event with its block number and log index.
WithMeta(p, b, l) ==
    [kind |-> p.kind, id |-> p.id, index |-> p.index, call |-> p.call,
     block_number |-> b, log_index |-> l]

\* A log of n events: payloads ps, non-decreasing block numbers bs, and the
\* log index counting the events of the same block before it.
MkChain(ps, bs) ==
    [i \in 1..Len(ps) |->
        WithMeta(ps[i], bs[i], Cardinality({j \in 1..(i - 1) : bs[j] = bs[i]}))]

\* The chain is one of the logs, placed in the blocks 0..lastBlock.
SomeChain(logs, lastBlock) ==
    \E ps \in logs :
        \E bs \in {b \in [1..Len(ps) -> 0..lastBlock] :
                      \A j \in 1..(Len(ps) - 1) : b[j] <= b[j + 1]} :
            chain = MkChain(ps, bs)

ProposalItemFrom(filter) ==
    [id |-> filter.id, index |-> filter.index, call |-> filter.call,
     status |-> "Pending"]

----------------------------------------------------------------------------
(* The event query of the contract client *)

\* The events of the blocks from..to, in chain order.
EventsIn(c, from, to) ==
    SelectSeq(c, LAMBDA e : from <= e.block_number /\ e.block_number <= to)

Perms(s) ==
    {[i \in 1..Len(s) |-> s[p[i]]] :
        p \in {q \in [1..Len(s) -> 1..Len(s)] :
                  \A a, b \in 1..Len(s) : a # b => q[a] # q[b]}}

\* query_with_meta, when it succeeds, answers the events of the range; the
\* order of the answer is the provider's.
QueryResults(c, from, to) == Perms(EventsIn(c, from, to))

\* Why a query fails: the provider's cap on the block span or the result
\* size, or the transport (network, auth).  The Err carries it; load_events
\* prints it and does not look at it.
FailureCauses == {"limit", "transport"}

\* The history entry of a query that answered result.
Succeeded(call, result) ==
    [from |-> call.from, to |-> call.to, ok |-> TRUE, cause |-> "none",
     in_order |-> (result = EventsIn(chain, call.from, call.to))]

\* The history entry of a query that failed.
Failed(call, cause) ==
    [from |-> call.from, to |-> call.to, ok |-> FALSE, cause |-> cause,
     in_order |-> TRUE]

----------------------------------------------------------------------------
(* load_events *)

MidBlock(from, to) == (from + to) \div 2

AlreadyNarrow(from, to) == MidBlock(from, to) = from \/ MidBlock(from, to) = to

\* Mutant of Bisect: the first block is split off instead of the lower half.
BisectFirstBlock(call) ==
    <<[from |-> call.from, to |-> call.from, depth |-> call.depth + 1],
      [from |-> call.from + 1, to |-> call.to, depth |-> call.depth + 1]>>

\* Mutant of Bisect: the upper half starts at mid_block instead of mid_block + 1.
BisectOverlapping(call) ==
    <<[from |-> call.from, to |-> MidBlock(call.from, call.to), depth |-> call.depth + 1],
      [from |-> MidBlock(call.from, call.to), to |-> call.to, depth |-> call.depth + 1]>>

\* The calls at lines 419 and 421, one level deeper than the failed call.
Bisect(call) ==
    <<[from |-> call.from, to |-> MidBlock(call.from, call.to), depth |-> call.depth + 1],
      [from |-> MidBlock(call.from, call.to) + 1, to |-> call.to, depth |-> call.depth + 1]>>

----------------------------------------------------------------------------
(* load_proposals: the fold *)

NoProposals == [k \in {} |-> k]

\* getTimestamp(id) is a view of the contract's storage: once it has answered
\* ts for an id, it answers ts for that id.
Answered(answers, id, ts) ==
    [k \in (DOMAIN answers) \cup {id} |-> IF k = id THEN ts ELSE answers[k]]

\* Mutant of Insert: the map is rebuilt for every Scheduled event.
InsertFresh(props, id, item) == [k \in {id} |-> item]

\* HashMap::insert: a new entry, or the entry of this id replaced.
Insert(props, id, item) ==
    [k \in (DOMAIN props) \cup {id} |-> IF k = id THEN item ELSE props[k]]

\* Mutant of SetStatus: the status is set on every entry of the map.
SetStatusOfAll(props, id, status) ==
    [k \in DOMAIN props |-> [props[k] EXCEPT !.status = status]]

\* Mutant of SetStatus: the status is set only on a Ready proposal.
SetStatusIfReady(props, id, status) ==
    IF props[id].status = "Ready" THEN [props EXCEPT ![id].status = status] ELSE props

\* proposals.get_mut(&id).unwrap().status = status
SetStatus(props, id, status) == [props EXCEPT ![id].status = status]

\* if ts.as_u64() < now { proposal.status = ProposalStatus::Ready; }
InitialStatus(ts, clock) == IF ts < clock THEN "Ready" ELSE "Pending"

\* Mutant of Retained: no_done and no_cancel remove each other's status.
RetainedSwapped(f) ==
    ((((ProposalStatus \ (IF f.no_done THEN {"Cancelled"} ELSE {}))
        \ (IF f.no_pending THEN {"Pending"} ELSE {}))
        \ (IF f.no_ready THEN {"Ready"} ELSE {}))
        \ (IF f.no_cancel THEN {"Executed"} ELSE {}))

\* The statuses line 359-379 keeps.
Retained(f) ==
    ((((ProposalStatus \ (IF f.no_done THEN {"Executed"} ELSE {}))
        \ (IF f.no_pending THEN {"Pending"} ELSE {}))
        \ (IF f.no_ready THEN {"Ready"} ELSE {}))
        \ (IF f.no_cancel THEN {"Cancelled"} ELSE {}))

\* proposals.retain(|_, v| statuses.contains(&v.status))
Retain(props, statuses) ==
    [k \in {j \in DOMAIN props : props[j].status \in statuses} |-> props[k]]

\* Mutant of InsertByBlock: an unstable sort, equal block numbers end reversed.
InsertBeforeEqual(sorted, e) ==
    LET n == Cardinality({j \in 1..Len(sorted) : sorted[j].block_number < e.block_number})
    IN  SubSeq(sorted, 1, n) \o <<e>> \o SubSeq(sorted, n + 1, Len(sorted))

\* events.sort_by(|a, b| a.1.block_number.cmp(&b.1.block_number)): a stable
\* sort on the block number alone.
InsertByBlock(sorted, e) ==
    LET n == Cardinality({j \in 1..Len(sorted) : sorted[j].block_number <= e.block_number})
    IN  SubSeq(sorted, 1, n) \o <<e>> \o SubSeq(sorted, n + 1, Len(sorted))

RECURSIVE SortByBlock(_)
SortByBlock(s) ==
    IF s = <<>> THEN <<>>
    ELSE InsertByBlock(SortByBlock(SubSeq(s, 1, Len(s) - 1)), s[Len(s)])

\* Lines 329-358 as a function of the sorted vector and of the contract's
\* getTimestamp answers, from position k and the map props on: whether it
\* panics on an unknown id, and else the status it leaves each id with.
RECURSIVE FoldFrom(_, _, _, _, _)
FoldFrom(evs, k, props, answers, clock) ==
    IF k > Len(evs)
       THEN [error |-> FALSE, statuses |-> [id \in DOMAIN props |-> props[id].status]]
       ELSE LET data == evs[k] IN
            CASE data.kind = "CallScheduled" ->
                    FoldFrom(evs, k + 1,
                             Insert(props, data.id,
                                    [ProposalItemFrom(data) EXCEPT
                                        !.status = InitialStatus(answers[data.id], clock)]),
                             answers, clock)
              [] data.kind \in {"CallExecuted", "Cancelled"} ->
                    IF data.id \in DOMAIN props
                       THEN FoldFrom(evs, k + 1,
                                     SetStatus(props, data.id,
                                               IF data.kind = "CallExecuted"
                                                  THEN "Executed" ELSE "Cancelled"),
                                     answers, clock)
                       ELSE [error |-> TRUE, statuses |-> NoProposals]
              [] OTHER -> FoldFrom(evs, k + 1, props, answers, clock)

\* load_proposals from line 328 to line 358 on the vector load_events returned.
Reconcile(arrived, answers, clock) ==
    FoldFrom(SortByBlock(arrived), 1, NoProposals, answers, clock)

----------------------------------------------------------------------------
(* Initial states: the arguments and the chain the invocation finds *)

NoFlags == [no_done |-> FALSE, no_ready |-> FALSE, no_pending |-> FALSE, no_cancel |-> FALSE]

AllFlags == [no_done : BOOLEAN, no_ready : BOOLEAN, no_pending : BOOLEAN, no_cancel : BOOLEAN]

\* Filter-centred inputs: four proposals, of which one is executed and one
\* cancelled, each event in a block of its own; or one administrative event.
FilterLog ==
    <<Scheduled(1, 0), Scheduled(2, 0), Scheduled(3, 0), Scheduled(4, 0),
      Executed(3), Cancelled(4)>>

FilterChains ==
    {MkChain(FilterLog, [i \in 1..Len(FilterLog) |-> i - 1]),
     MkChain(<<Admin("MinDelayChange")>>, <<0>>)}

InitLocals ==
    /\ timestamps = NoProposals
    /\ pc = "init"
    /\ outcome = "Running"
    /\ upto = 0
    /\ now = 0
    /\ proposals = NoProposals
    /\ events = <<>>
    /\ cursor = 1
    /\ todo = <<>>
    /\ queries = <<>>
    /\ emitted = {}

\* Fold-centred inputs: every log of up to MaxEvents events over the blocks
\* 0..MaxFoldBlock, queried over the whole range.
Init ==
    /\ SomeChain(UNION {FoldLogs(n) : n \in 0..MaxEvents}, MaxFoldBlock)
    /\ head = MaxFoldBlock
    /\ from_block = 0
    /\ to_block = <<>>
    /\ flags = NoFlags
    /\ InitLocals

\* Fetch-centred inputs: every range of the blocks 0..MaxBlock, over short logs.
InitFetch ==
    /\ SomeChain(UNION {FetchLogs(n) : n \in 0..MaxFetchEvents}, MaxBlock)
    /\ head = MaxBlock
    /\ from_block \in 0..MaxBlock
    /\ to_block \in {<<>>} \cup {<<t>> : t \in from_block..MaxBlock}
    /\ flags = NoFlags
    /\ InitLocals

\* Filter-centred inputs: every combination of the four flags.
InitFilter ==
    /\ chain \in FilterChains
    /\ head = Len(FilterLog) - 1
    /\ from_block = 0
    /\ to_block = <<>>
    /\ flags \in AllFlags
    /\ InitLocals

----------------------------------------------------------------------------
(* load_proposals, lines 319-326 *)

Fail(how) ==
    /\ pc' = "failed"
    /\ outcome' = how

\* let time_lock = init_timelock_call().await?;
Connect ==
    /\ pc = "init"
    /\ \/ pc' = "resolve" /\ UNCHANGED outcome
       \/ Fail("ConnectFailure")
    /\ UNCHANGED <<chain, head, timestamps, from_block, to_block, flags, upto, now,
                   proposals, events, cursor, todo, queries, emitted>>

\* _to_block, now, the empty map, and the first call of load_events.
ResolveRange ==
    /\ pc = "resolve"
    /\ \/ /\ upto' = (IF to_block = <<>> THEN head ELSE to_block[1])
          /\ now' \in 1..MaxNow
          /\ proposals' = NoProposals
          /\ todo' = <<[from |-> from_block, to |-> upto', depth |-> 0]>>
          /\ pc' = "fetch"
          /\ UNCHANGED outcome
       \/ /\ to_block = <<>>
          /\ Fail("HeadQueryFailure")
          /\ UNCHANGED <<upto, now, proposals, todo>>
    /\ UNCHANGED <<chain, head, timestamps, from_block, to_block, flags,
                   events, cursor, queries, emitted>>

----------------------------------------------------------------------------
(* load_events, lines 396-426 *)

\* Ok(result) => result
QueryOk ==
    /\ pc = "fetch"
    /\ todo # <<>>
    /\ LET call == Head(todo) IN
        /\ \E result \in QueryResults(chain, call.from, call.to) :
              /\ events' = events \o result
              /\ queries' = Append(queries, Succeeded(call, result))
        /\ todo' = Tail(todo)
        /\ pc' = (IF todo' = <<>> THEN "sort" ELSE "fetch")
    /\ UNCHANGED <<chain, head, timestamps, from_block, to_block, flags, outcome,
                   upto, now, proposals, cursor, emitted>>

\* Mutant of QueryErr: a failure on a narrow range is swallowed as an empty result.
QueryErrSwallowed ==
    /\ pc = "fetch"
    /\ todo # <<>>
    /\ LET call == Head(todo) IN
        /\ \E cause \in FailureCauses : queries' = Append(queries, Failed(call, cause))
        /\ IF AlreadyNarrow(call.from, call.to)
              THEN /\ todo' = Tail(todo)
                   /\ pc' = (IF todo' = <<>> THEN "sort" ELSE "fetch")
                   /\ UNCHANGED outcome
              ELSE /\ todo' = Bisect(call) \o Tail(todo)
                   /\ UNCHANGED <<pc, outcome>>
    /\ UNCHANGED <<chain, head, timestamps, from_block, to_block, flags,
                   upto, now, proposals, events, cursor, emitted>>

\* Err(err) => panic when the range is already narrow, else the two halves.
QueryErr ==
    /\ pc = "fetch"
    /\ todo # <<>>
    /\ LET call == Head(todo) IN
        /\ \E cause \in FailureCauses : queries' = Append(queries, Failed(call, cause))
        /\ IF AlreadyNarrow(call.from, call.to)
              THEN /\ Fail("UnboundedRangeFailure")
                   /\ UNCHANGED todo
              ELSE /\ todo' = Bisect(call) \o Tail(todo)
                   /\ UNCHANGED <<pc, outcome>>
    /\ UNCHANGED <<chain, head, timestamps, from_block, to_block, flags,
                   upto, now, proposals, events, cursor, emitted>>

----------------------------------------------------------------------------
(* load_proposals, lines 328-386 *)

SortEvents ==
    /\ pc = "sort"
    /\ events' = SortByBlock(events)
    /\ cursor' = 1
    /\ pc' = "fold"
    /\ UNCHANGED <<chain, head, timestamps, from_block, to_block, flags, outcome,
                   upto, now, proposals, todo, queries, emitted>>

Folding(kinds) ==
    /\ pc = "fold"
    /\ cursor <= Len(events)
    /\ events[cursor].kind \in kinds

\* Mutant of FoldScheduled: the clock is read again for every Scheduled event.
FoldScheduledRereadsClock ==
    /\ Folding({"CallScheduled"})
    /\ LET data == events[cursor] IN
        \/ \E ts \in (IF data.id \in DOMAIN timestamps THEN {timestamps[data.id]} ELSE Times) :
           \E clock \in now..(MaxNow + 1) :
              /\ timestamps' = Answered(timestamps, data.id, ts)
              /\ proposals' = Insert(proposals, data.id,
                    [ProposalItemFrom(data) EXCEPT !.status = InitialStatus(ts, clock)])
              /\ cursor' = cursor + 1
              /\ UNCHANGED <<pc, outcome>>
        \/ /\ Fail("TimestampQueryFailure")
           /\ UNCHANGED <<timestamps, proposals, cursor>>
    /\ UNCHANGED <<chain, head, from_block, to_block, flags, upto, now, events,
                   todo, queries, emitted>>

\* TimeLockEvents::CallScheduledFilter(data)
FoldScheduled ==
    /\ Folding({"CallScheduled"})
    /\ LET data == events[cursor] IN
        \/ \E ts \in (IF data.id \in DOMAIN timestamps THEN {timestamps[data.id]} ELSE Times) :
              /\ timestamps' = Answered(timestamps, data.id, ts)
              /\ proposals' = Insert(proposals, data.id,
                    [ProposalItemFrom(data) EXCEPT !.status = InitialStatus(ts, now)])
              /\ cursor' = cursor + 1
              /\ UNCHANGED <<pc, outcome>>
        \/ /\ Fail("TimestampQueryFailure")
           /\ UNCHANGED <<timestamps, proposals, cursor>>
    /\ UNCHANGED <<chain, head, from_block, to_block, flags, upto, now, events,
                   todo, queries, emitted>>

\* Mutant of FoldTerminal: an event for an unknown id is skipped.
FoldTerminalSkip(kind, status) ==
    /\ Folding({kind})
    /\ LET data == events[cursor] IN
        /\ proposals' = (IF data.id \in DOMAIN proposals
                            THEN SetStatus(proposals, data.id, status)
                            ELSE proposals)
        /\ cursor' = cursor + 1
    /\ UNCHANGED <<chain, head, timestamps, from_block, to_block, flags, pc, outcome,
                   upto, now, events, todo, queries, emitted>>

\* if proposals.contains_key(&data.id) { ... } else { panic!("proposal not exist") }
FoldTerminal(kind, status) ==
    /\ Folding({kind})
    /\ LET data == events[cursor] IN
        IF data.id \in DOMAIN proposals
           THEN /\ proposals' = SetStatus(proposals, data.id, status)
                /\ cursor' = cursor + 1
                /\ UNCHANGED <<pc, outcome>>
           ELSE /\ Fail("ConsistencyViolation")
                /\ UNCHANGED <<proposals, cursor>>
    /\ UNCHANGED <<chain, head, timestamps, from_block, to_block, flags, upto, now,
                   events, todo, queries, emitted>>

\* TimeLockEvents::CallExecutedFilter(data)
FoldExecuted == FoldTerminal("CallExecuted", "Executed")

\* TimeLockEvents::CancelledFilter(data)
FoldCancelled == FoldTerminal("Cancelled", "Cancelled")

\* Mutant of FoldAdmin: a role event panics like an event of an unknown id.
FoldAdminRolePanics ==
    /\ Folding(AdminKinds)
    /\ IF events[cursor].kind = "MinDelayChange"
          THEN cursor' = cursor + 1 /\ UNCHANGED <<pc, outcome>>
          ELSE Fail("ConsistencyViolation") /\ UNCHANGED cursor
    /\ UNCHANGED <<chain, head, timestamps, from_block, to_block, flags,
                   upto, now, proposals, events, todo, queries, emitted>>

\* MinDelayChangeFilter, RoleAdminChangedFilter, RoleGrantedFilter, RoleRevokedFilter
FoldAdmin ==
    /\ Folding(AdminKinds)
    /\ cursor' = cursor + 1
    /\ UNCHANGED <<chain, head, timestamps, from_block, to_block, flags, pc, outcome,
                   upto, now, proposals, events, todo, queries, emitted>>

FilterStatuses ==
    /\ pc = "fold"
    /\ cursor > Len(events)
    /\ proposals' = Retain(proposals, Retained(flags))
    /\ pc' = "print"
    /\ UNCHANGED <<chain, head, timestamps, from_block, to_block, flags, outcome,
                   upto, now, events, cursor, todo, queries, emitted>>

\* Mutant of PrintProposals: the records are also printed while folding.
PrintWhileFolding ==
    \/ /\ pc = "fold"
       /\ cursor <= Len(events)
       /\ emitted = {}
       /\ DOMAIN proposals # {}
       /\ emitted' = {proposals[k] : k \in DOMAIN proposals}
       /\ UNCHANGED <<chain, head, timestamps, from_block, to_block, flags, pc, outcome,
                      upto, now, proposals, events, cursor, todo, queries>>
    \/ /\ pc = "print"
       /\ emitted' = {proposals[k] : k \in DOMAIN proposals}
       /\ pc' = "done"
       /\ outcome' = "Ok"
       /\ UNCHANGED <<chain, head, timestamps, from_block, to_block, flags,
                      upto, now, proposals, events, cursor, todo, queries>>

\* for p in proposals.values() { println!(...) }; Ok(())
PrintProposals ==
    /\ pc = "print"
    /\ emitted' = {proposals[k] : k \in DOMAIN proposals}
    /\ pc' = "done"
    /\ outcome' = "Ok"
    /\ UNCHANGED <<chain, head, timestamps, from_block, to_block, flags,
                   upto, now, proposals, events, cursor, todo, queries>>

----------------------------------------------------------------------------

Next ==
    \/ Connect
    \/ ResolveRange
    \/ QueryOk
    \/ QueryErr
    \/ SortEvents
    \/ FoldScheduled
    \/ FoldExecuted
    \/ FoldCancelled
    \/ FoldAdmin
    \/ FilterStatuses
    \/ PrintProposals

Spec == Init /\ [][Next]_vars

SpecFetch == InitFetch /\ [][Next]_vars

SpecFilter == InitFilter /\ [][Next]_vars

\* Every await of the invocation completes: the program runs until it
\* returns or panics.
FairFetch == SpecFetch /\ WF_vars(Next)

----------------------------------------------------------------------------
(* Properties *)

FailedQuery(k) == ~queries[k].ok

SingleBlock(k) == queries[k].from = queries[k].to

SingleBlockFailed == \E k \in 1..Len(queries) : FailedQuery(k) /\ SingleBlock(k)

\* load_events has returned to line 327, or has panicked.
LoadEventsReturned ==
    \/ pc \in {"sort", "fold", "print", "done"}
    \/ pc = "failed" /\ outcome \in {"TimestampQueryFailure", "ConsistencyViolation"}

LoadEventsEnded == LoadEventsReturned \/ outcome = "UnboundedRangeFailure"

\* The for loop is at an event, about to fold it.
AtEvent == pc = "fold" /\ cursor <= Len(events)

\* The for loop has folded every event.
FoldComplete == pc = "fold" /\ cursor > Len(events)

Terminal(id) == id \in DOMAIN proposals /\ proposals[id].status \in {"Executed", "Cancelled"}

\* C1: for every range and every pattern of query failures without a failing
\* single-block query, load_events returns, and what it returns is exactly
\* the events of the range, each once.
C1_BisectionCorrectness ==
    (LoadEventsEnded /\ ~SingleBlockFailed) =>
        (LoadEventsReturned /\ events \in Perms(EventsIn(chain, from_block, upto)))

\* C2: the fatal "range cannot be narrowed" outcome occurs only when the
\* failing query covers a single block.
C2_FatalOnlySingleBlock ==
    outcome = "UnboundedRangeFailure" => SingleBlock(Len(queries))

\* C3: a query that fails on a single block ends load_events with the fatal
\* UnboundedRangeFailure outcome; load_events issues at most 2n-1 queries on
\* a range of n blocks, and the invocation ends.
C3_BisectionTermination ==
    /\ [](SingleBlockFailed => (pc = "failed" /\ outcome = "UnboundedRangeFailure"))
    /\ [](pc = "fetch" => Len(queries) <= 2 * (upto - from_block + 1) - 1)
    /\ <>(pc \in {"done", "failed"})

\* A bisection found a working sub-range and then a block whose own query fails.
C3_Witness ==
    /\ outcome = "UnboundedRangeFailure"
    /\ Len(queries) >= 3
    /\ SingleBlock(Len(queries))
    /\ \E k \in 1..Len(queries) : queries[k].ok

\* The getTimestamp answers the contract may give, given those it gave.
PossibleAnswers ==
    {a \in [Ids -> Times] : \A id \in DOMAIN timestamps : a[id] = timestamps[id]}

\* C4: whatever the arrival order of the same events, the fold ends with the
\* same id-to-status mapping, or with the same error.
C4_OrderingIndependence ==
    (FoldComplete \/ outcome = "ConsistencyViolation") =>
        \A arrived \in Perms(events) : \A answers \in PossibleAnswers :
            LET r == Reconcile(arrived, answers, now) IN
                /\ r.error = (outcome = "ConsistencyViolation")
                /\ ~r.error => r.statuses = [id \in DOMAIN proposals |-> proposals[id].status]

ChainOrder(a, b) ==
    \/ a.block_number < b.block_number
    \/ a.block_number = b.block_number /\ a.log_index <= b.log_index

\* C5: the events are folded in non-decreasing (block number, log index) order.
C5_FoldInChainOrder ==
    pc = "fold" =>
        \A a, b \in 1..Len(events) : a < b => ChainOrder(events[a], events[b])

\* C6: a Scheduled event creates the proposal Pending if and only if the
\* timestamp getTimestamp answered is strictly greater than now, else Ready.
C6_InitialStatus ==
    [][(AtEvent /\ events[cursor].kind = "CallScheduled" /\ cursor' = cursor + 1) =>
          proposals'[events[cursor].id].status =
              (IF timestamps'[events[cursor].id] > now THEN "Pending" ELSE "Ready")]_vars

\* C7 as stated: once a proposal is Executed or Cancelled, folding a later
\* event never changes its status.
C7_TerminalIsFinal ==
    [][AtEvent =>
          \A id \in Ids : Terminal(id) =>
              /\ id \in DOMAIN proposals'
              /\ proposals'[id].status = proposals[id].status]_vars

\* C7 amended: once a proposal is Executed or Cancelled, folding an
\* administrative event or an event carrying another id never changes its
\* status; only a Scheduled, Executed or Cancelled event carrying its own id
\* does.
C7_TerminalUnlessSameId ==
    [][AtEvent =>
          \A id \in Ids : (Terminal(id) /\ events[cursor].id # id) =>
              /\ id \in DOMAIN proposals'
              /\ proposals'[id].status = proposals[id].status]_vars

\* A proposal is Executed or Cancelled and a later event of another id, or an
\* administrative one, has been folded.
C7_Witness ==
    /\ pc = "fold"
    /\ cursor > 2
    /\ \E id \in Ids :
          /\ Terminal(id)
          /\ events[cursor - 1].id # id
          /\ \E k \in 1..(cursor - 2) :
                events[k].id = id /\ events[k].kind \in {"CallExecuted", "Cancelled"}

\* The kinds of the events carrying id, in fold order.
KindsOf(id) ==
    LET of == SelectSeq(events, LAMBDA e : e.id = id) IN
        [k \in 1..Len(of) |-> of[k].kind]

\* C8: on a known id an Executed event sets the status Executed and a
\* Cancelled event sets it Cancelled, whatever the status was; a proposal
\* with a Scheduled and then only an Executed event ends Executed, one with
\* only a Scheduled event ends Pending or Ready.
C8_EventTransitions ==
    /\ [][(AtEvent /\ events[cursor].kind \in {"CallExecuted", "Cancelled"}
                   /\ events[cursor].id \in DOMAIN proposals) =>
             /\ pc' = "fold"
             /\ cursor' = cursor + 1
             /\ proposals'[events[cursor].id].status =
                   (IF events[cursor].kind = "CallExecuted" THEN "Executed" ELSE "Cancelled")]_vars
    /\ [](FoldComplete =>
             \A id \in Ids :
                /\ KindsOf(id) = <<"CallScheduled", "CallExecuted">> =>
                      proposals[id].status = "Executed"
                /\ KindsOf(id) = <<"CallScheduled">> =>
                      proposals[id].status \in {"Pending", "Ready"})

\* A proposal created Pending has been folded to Executed.
C8_Witness ==
    /\ FoldComplete
    /\ \E id \in Ids :
          /\ KindsOf(id) = <<"CallScheduled", "CallExecuted">>
          /\ InitialStatus(timestamps[id], now) = "Pending"
          /\ proposals[id].status = "Executed"

\* C9: folding an Executed or Cancelled event whose id has no entry ends the
\* invocation with the ConsistencyViolation outcome and leaves the map as it is.
C9_ConsistencyViolation ==
    [][(AtEvent /\ events[cursor].kind \in {"CallExecuted", "Cancelled"}
                /\ events[cursor].id \notin DOMAIN proposals) =>
          /\ pc' = "failed"
          /\ outcome' = "ConsistencyViolation"
          /\ proposals' = proposals]_vars

\* The fold met an Executed or Cancelled event of an unknown id after it had
\* created a proposal of another id.
C9_Witness ==
    /\ outcome = "ConsistencyViolation"
    /\ DOMAIN proposals # {}
    /\ events[cursor].id \notin DOMAIN proposals

\* C10: an invocation that fails has printed no proposal record; records are
\* printed only when every event has been folded.
C10_AllOrNothing ==
    /\ pc = "failed" => emitted = {}
    /\ emitted # {} => (pc = "done" /\ outcome = "Ok" /\ cursor > Len(events))

\* The invocation failed after it had folded a proposal into the map.
C10_Witness ==
    /\ pc = "failed"
    /\ outcome \in {"TimestampQueryFailure", "ConsistencyViolation"}
    /\ DOMAIN proposals # {}

\* The flags exclude this status.
Excluded(status) ==
    \/ status = "Executed" /\ flags.no_done
    \/ status = "Ready" /\ flags.no_ready
    \/ status = "Pending" /\ flags.no_pending
    \/ status = "Cancelled" /\ flags.no_cancel

\* C11: the filter keeps exactly the folded entries whose status is not
\* excluded, each as it was folded (all of them when no flag is set), and
\* the folded statuses are those computed from the events, the getTimestamp
\* answers and the clock alone.
C11_FilterProjection ==
    /\ [][FoldComplete =>
             /\ DOMAIN proposals' =
                   {id \in DOMAIN proposals : ~Excluded(proposals[id].status)}
             /\ \A id \in DOMAIN proposals' : proposals'[id] = proposals[id]
             /\ flags = NoFlags => proposals' = proposals]_vars
    /\ [](FoldComplete =>
             [id \in DOMAIN proposals |-> proposals[id].status]
                 = Reconcile(events, timestamps, now).statuses)

\* All four statuses were folded and no_done alone removed the Executed entry.
C11_Witness ==
    /\ pc = "print"
    /\ flags = [NoFlags EXCEPT !.no_done = TRUE]
    /\ DOMAIN timestamps = {1, 2, 3, 4}
    /\ DOMAIN proposals = {1, 2, 4}
    /\ {proposals[id].status : id \in DOMAIN proposals} = {"Pending", "Ready", "Cancelled"}

\* C12: folding an administrative event of any of the four kinds leaves the
\* map as it is and the invocation running, also when the map is empty.
C12_AdminIgnored ==
    [][(AtEvent /\ events[cursor].kind \in AdminKinds) =>
          /\ proposals' = proposals
          /\ cursor' = cursor + 1
          /\ pc' = "fold"
          /\ outcome' = "Running"]_vars

\* A role event has been folded while no proposal was known.
C12_Witness ==
    /\ pc = "fold"
    /\ outcome = "Running"
    /\ cursor > 1
    /\ events[cursor - 1].kind \in AdminKinds \ {"MinDelayChange"}
    /\ proposals = NoProposals

\* The statuses the fold has left.
FoldedStatuses == [id \in DOMAIN proposals |-> proposals[id].status]

\* The clock readings of a reconciliation run after this one.
LaterClocks == now..(MaxNow + 1)

\* C13 as stated: a second reconciliation of the same events with the same
\* getTimestamp answers yields the same mapping, whatever later time its
\* clock reads.
C13_Idempotence ==
    FoldComplete =>
        \A later \in LaterClocks :
            Reconcile(events, timestamps, later).statuses = FoldedStatuses

\* C13 amended: a second reconciliation that folds the same events in the
\* same order with the same getTimestamp answers yields the same mapping,
\* except that a proposal left Pending is Ready in the second one when its
\* timestamp is below the second clock reading; with the same clock reading
\* the mappings are identical.
C13_IdempotentUpToClock ==
    FoldComplete =>
        \A later \in LaterClocks :
            LET second == Reconcile(events, timestamps, later) IN
                /\ ~second.error
                /\ DOMAIN second.statuses = DOMAIN proposals
                /\ \A id \in DOMAIN proposals :
                      second.statuses[id] =
                          (IF proposals[id].status = "Pending" /\ timestamps[id] < later
                              THEN "Ready" ELSE proposals[id].status)

\* The fold left a proposal Pending that a later clock reading makes Ready,
\* next to one it left Executed or Cancelled.
C13_Witness ==
    /\ FoldComplete
    /\ \E id \in DOMAIN proposals :
          proposals[id].status = "Pending" /\ timestamps[id] < MaxNow + 1
    /\ \E id \in DOMAIN proposals : proposals[id].status \in {"Executed", "Cancelled"}

\* C14: a log query that fails for a transport cause ends the invocation in
\* failure at once: it is the last log query load_events issues.
C14_TransportSurfaced ==
    \A k \in 1..Len(queries) :
        queries[k].cause = "transport" =>
            /\ k = Len(queries)
            /\ pc = "failed"

\* The attributes of a ProposalItem other than its status.
Attributes(item) == [id |-> item.id, index |-> item.index, call |-> item.call]

C16_DepthBound ==
    pc = "fetch" =>
        \A k \in 1..Len(todo) : 2 ^ todo[k].depth <= upto - from_block + 1

\* load_events is two levels deep.
C16_Witness ==
    /\ pc = "fetch"
    /\ \E k \in 1..Len(todo) : todo[k].depth = 2

\* load_events replaces the failed call at the head of todo by its two halves.
Bisecting == pc = "fetch" /\ Len(todo') = Len(todo) + 1

InRange(k, b) == queries[k].from <= b /\ b <= queries[k].to

\* C17: when load_events bisects [from, to], from < mid < to and the halves
\* are [from, mid] and [mid+1, to]: non-empty, disjoint, smaller than the
\* range and covering it; every query is for a sub-interval of the range of
\* the invocation, and no block is in the range of two successful queries.
C17_BisectionPartition ==
    /\ [][Bisecting =>
             LET call == Head(todo)
                 left == todo'[1]
                 right == todo'[2]
                 mid == MidBlock(call.from, call.to)
             IN  /\ call.from < mid /\ mid < call.to
                 /\ left.from = call.from /\ left.to = mid
                 /\ right.from = mid + 1 /\ right.to = call.to
                 /\ left.from <= left.to /\ right.from <= right.to
                 /\ left.to - left.from < call.to - call.from
                 /\ right.to - right.from < call.to - call.from]_vars
    /\ [](\A k \in 1..Len(queries) :
             /\ from_block <= queries[k].from
             /\ queries[k].from <= queries[k].to
             /\ queries[k].to <= upto)
    /\ [](\A j, k \in 1..Len(queries) :
             (j # k /\ queries[j].ok /\ queries[k].ok) =>
                 \A b \in from_block..upto : ~(InRange(j, b) /\ InRange(k, b)))

\* Both halves of a bisected range were queried with success.
C17_Witness ==
    /\ Len(queries) >= 3
    /\ ~queries[1].ok
    /\ \E j, k \in 1..Len(queries) :
          /\ j < k /\ queries[j].ok /\ queries[k].ok
          /\ queries[j].to + 1 = queries[k].from

AllAnswersInOrder == \A k \in 1..Len(queries) : queries[k].ok => queries[k].in_order

\* C18: when every successful query answered its events in chain order,
\* load_events returns the events of the range in chain order, and they are
\* folded in (block number, log index) order.
C18_ChainOrderPreserved ==
    AllAnswersInOrder =>
        /\ pc \in {"sort", "fold"} => events = EventsIn(chain, from_block, upto)
        /\ pc = "fold" =>
              \A a, b \in 1..Len(events) : a < b =>
                  /\ ChainOrder(events[a], events[b])
                  /\ ~ChainOrder(events[b], events[a])

\* Two events of one block, answered in chain order after a bisection, are
\* about to be folded.
C18_Witness ==
    /\ pc = "fold"
    /\ AllAnswersInOrder
    /\ Len(queries) >= 3
    /\ Len(events) = 2
    /\ events[1].block_number = events[2].block_number

====
